---- MODULE Spec2Model ----
(***************************************************************************)
(* varianteq: #[derive(VariantEq)] (src/src/lib.rs).                       *)
(*                                                                         *)
(* The derive macro receives one parsed declaration (syn::DeriveInput),    *)
(* checks that it is an enum, splits its generics for an impl header and   *)
(* emits two impls: PartialEq, whose eq compares mem::discriminant of the  *)
(* two operands, and an empty Eq.  On any other declaration it stops with  *)
(* unimplemented!(..), a panic.                                            *)
(*                                                                         *)
(* The model runs a bounded series of macro invocations (the host compiler *)
(* expands one derive at a time) and, for an accepted enum, evaluates the  *)
(* generated eq on pairs of values of that enum.                           *)
(***************************************************************************)
EXTENDS Integers, Sequences, FiniteSets, TLC

VARIABLES invs, cmp

vars == <<invs, cmp>>

\* ------------------------------------------------------------ bounds

\* Most generic parameters a declaration carries.
MaxParams == 2
\* Most variants an enum declares.
MaxVariants == 2
\* Most macro invocations in one compilation.
MaxInvocations == 3

\* ------------------------------------------------- the parsed declaration

\* syn::Data: the three kinds of declaration a derive can be attached to.
DataKinds == {"Enum", "Struct", "Union"}

\* Names of the declared types.
Idents == {"E", "G"}

\* syn::GenericParam: a lifetime, a type parameter (with inline bounds and an
\* optional default) or a const parameter (its type held in bounds).
ParamPool ==
    { [kind |-> "lifetime", name |-> "'a", bounds |-> <<>>,        default |-> ""],
      [kind |-> "type",     name |-> "T",  bounds |-> <<>>,        default |-> ""],
      [kind |-> "type",     name |-> "U",  bounds |-> <<"Clone">>, default |-> "i32"],
      [kind |-> "const",    name |-> "N",  bounds |-> <<"usize">>, default |-> ""] }

\* A parameter list as rustc accepts it: distinct names, lifetimes first.
WellFormedParams(s) ==
    /\ \A i, j \in 1..Len(s) : i # j => s[i].name # s[j].name
    /\ \A i, j \in 1..Len(s) :
          (i < j /\ s[j].kind = "lifetime") => s[i].kind = "lifetime"

ParamSeqs ==
    { s \in UNION { [1..n -> ParamPool] : n \in 0..MaxParams } : WellFormedParams(s) }

\* syn::WhereClause: the predicates written after `where`, in order.
WhereClauses ==
    { <<>>,
      << [subject |-> "T", bound |-> "Clone"] >>,
      << [subject |-> "U", bound |-> "Sized"], [subject |-> "T", bound |-> "Clone"] >> }

\* syn::Generics
GenericsSet == [params : ParamSeqs, where_clause : WhereClauses]

\* syn::Fields: Unit, Unnamed (tuple) or Named.
Shapes == {"Unit", "Unnamed", "Named"}

\* syn::DataEnum.variants: variant i of the enum carries fields of shape s[i].
VariantSeqs == UNION { [1..n -> Shapes] : n \in 0..MaxVariants }

\* The declaration without generics, and the variant lists of the enums
\* that are declared with every generics of GenericsSet.
NoGenerics == [params |-> <<>>, where_clause |-> <<>>]

PayloadVariants == { <<"Unnamed">>, <<"Unit", "Named">> }

\* syn::DeriveInput of an enum.  The enums vary in their generics (over
\* PayloadVariants) or in their variants (without generics).
EnumItems ==
    { [ident |-> id, generics |-> g, data |-> [kind |-> "Enum", variants |-> vs]] :
        id \in Idents, g \in GenericsSet, vs \in PayloadVariants }
    \cup
    { [ident |-> id, generics |-> NoGenerics, data |-> [kind |-> "Enum", variants |-> vs]] :
        id \in Idents, vs \in VariantSeqs }

\* syn::DeriveInput of a struct or a union.
NonEnumItems ==
    { [ident |-> id, generics |-> g, data |-> [kind |-> k, variants |-> <<>>]] :
        id \in Idents, g \in GenericsSet, k \in DataKinds \ {"Enum"} }

DeriveInputs == EnumItems \cup NonEnumItems

\* ------------------------------------------------------- split_for_impl

\* ImplGenerics: the parameters as an impl header declares them, in order,
\* with their bounds and without their defaults.
impl_generics(generics) ==
    [i \in 1..Len(generics.params) |->
        [kind   |-> generics.params[i].kind,
         name   |-> generics.params[i].name,
         bounds |-> generics.params[i].bounds]]

\* TypeGenerics: the parameters as arguments of the type, names only, in order.
ty_generics(generics) ==
    [i \in 1..Len(generics.params) |-> generics.params[i].name]

\* Option<&WhereClause>: the declaration's where clause as written.
where_clause(generics) == generics.where_clause

split_for_impl(generics) ==
    <<impl_generics(generics), ty_generics(generics), where_clause(generics)>>

\* ----------------------------------------------------------- derive

NoTokens == <<>>

UnsupportedKindMsg == "not implemented: #[derive(VariantEq)] is only defined for enums"

\* What an invocation hands back to the host: a token stream, or a panic
\* that unwinds out of the macro.
Returned(tokens) == [kind |-> "Tokens", tokens |-> tokens, message |-> ""]
Panicked(msg)    == [kind |-> "Panic",  tokens |-> NoTokens, message |-> msg]
Pending          == [kind |-> "None",   tokens |-> NoTokens, message |-> ""]

\* PartialEqImpl as the standard derive would write it: every type parameter
\* is also required to be PartialEq.
PartialEqImpl_bounded(ident, split) ==
    [trait         |-> "PartialEq",
     impl_generics |-> [i \in 1..Len(split[1]) |->
                          IF split[1][i].kind = "type"
                          THEN [split[1][i] EXCEPT !.bounds = Append(@, "PartialEq")]
                          ELSE split[1][i]],
     ident         |-> ident,
     ty_generics   |-> split[2],
     where_clause  |-> split[3],
     items         |-> << [fn    |-> "eq",
                           other |-> <<ident, split[2]>>,
                           body  |-> "discriminant(self) == discriminant(other)"] >>]

\* impl #impl_generics PartialEq for #ident #ty_generics #where_clause { fn eq .. }
PartialEqImpl(ident, split) ==
    [trait         |-> "PartialEq",
     impl_generics |-> split[1],
     ident         |-> ident,
     ty_generics   |-> split[2],
     where_clause  |-> split[3],
     items         |-> << [fn    |-> "eq",
                           other |-> <<ident, split[2]>>,
                           body  |-> "discriminant(self) == discriminant(other)"] >>]

\* EqImpl with the where clause left off the second impl.
EqImpl_bare(ident, split) ==
    [trait         |-> "Eq",
     impl_generics |-> split[1],
     ident         |-> ident,
     ty_generics   |-> split[2],
     where_clause  |-> <<>>,
     items         |-> <<>>]

\* impl #impl_generics Eq for #ident #ty_generics #where_clause {}
EqImpl(ident, split) ==
    [trait         |-> "Eq",
     impl_generics |-> split[1],
     ident         |-> ident,
     ty_generics   |-> split[2],
     where_clause  |-> split[3],
     items         |-> <<>>]

\* derive without the kind check: a struct or union is expanded as if it
\* were an enum.
derive_unchecked(item) ==
    LET split == split_for_impl(item.generics)
    IN  Returned(<<PartialEqImpl(item.ident, split), EqImpl(item.ident, split)>>)

\* derive that also refuses an enum without variants.
derive_nonempty(item) ==
    IF item.data.kind # "Enum" \/ Len(item.data.variants) = 0
    THEN Panicked(UnsupportedKindMsg)
    ELSE LET split == split_for_impl(item.generics)
         IN  Returned(<<PartialEqImpl(item.ident, split), EqImpl(item.ident, split)>>)

\* derive that has already emitted the first impl when the kind check fails.
derive_partial(item) ==
    LET split == split_for_impl(item.generics)
    IN  IF item.data.kind # "Enum"
        THEN [kind    |-> "Panic",
              tokens  |-> <<PartialEqImpl(item.ident, split)>>,
              message |-> UnsupportedKindMsg]
        ELSE Returned(<<PartialEqImpl(item.ident, split), EqImpl(item.ident, split)>>)

\* derive that remembers, across invocations, that Eq was emitted before and
\* leaves it out from the second invocation on.
derive_once(item) ==
    LET split == split_for_impl(item.generics)
    IN  IF item.data.kind # "Enum"
        THEN Panicked(UnsupportedKindMsg)
        ELSE IF Len(invs) > 1
             THEN Returned(<<PartialEqImpl(item.ident, split)>>)
             ELSE Returned(<<PartialEqImpl(item.ident, split), EqImpl(item.ident, split)>>)

\* fn derive(item: DeriveInput) -> TokenStream
derive(item) ==
    IF item.data.kind # "Enum"
    THEN Panicked(UnsupportedKindMsg)
    ELSE LET ident == item.ident
             split == split_for_impl(item.generics)
         IN  Returned(<<PartialEqImpl(ident, split), EqImpl(ident, split)>>)

\* ------------------------------------------- the generated eq, at run time

FieldValues == {1, 2}

\* The field values a variant of this shape can carry, as one number; a
\* Unit variant carries none.
Payloads(shape) == IF shape = "Unit" THEN {0} ELSE FieldValues

\* The values of the enum declared by item.
Values(item) ==
    UNION { { [variant |-> i, payload |-> p] : p \in Payloads(item.data.variants[i]) } :
            i \in 1..Len(item.data.variants) }

\* ::std::mem::discriminant: identifies the variant a value holds.
discriminant(v) == v.variant

\* eq as a field-wise comparison.
eq_structural(self, other) == self = other

\* eq that also accepts operands whose fields agree.
eq_payload(self, other) ==
    \/ discriminant(self) = discriminant(other)
    \/ self.payload = other.payload

\* eq with an ordering comparison of the discriminants.
eq_ordered(self, other) == discriminant(self) <= discriminant(other)

\* fn eq(&self, other) -> bool
eq(self, other) == discriminant(self) = discriminant(other)

\* ------------------------------------------------------------ state

NoCmp == [done |-> FALSE, lhs |-> 0, rhs |-> 0, result |-> FALSE]

Terminal == {"Validated", "Rejected"}

Cur == invs[Len(invs)]

Init ==
    /\ \E d \in DeriveInputs :
          invs = << [item |-> d, pc |-> "Unvalidated", out |-> Pending] >>
    /\ cmp = NoCmp

\* pub fn varianteq_derive(tokens): runs derive on the parsed input and
\* converts what it returns; a panic in derive passes through unchanged.
varianteq_derive ==
    /\ Cur.pc = "Unvalidated"
    /\ LET r == derive(Cur.item)
       IN  invs' = [invs EXCEPT ![Len(invs)] =
                      [item |-> Cur.item,
                       pc   |-> IF r.kind = "Tokens" THEN "Validated" ELSE "Rejected",
                       out  |-> r]]
    /\ UNCHANGED cmp

\* Declarations the host may expand after the first one.
LaterItems ==
    { [ident |-> "E", generics |-> NoGenerics,
       data |-> [kind |-> "Struct", variants |-> <<>>]],
      [ident |-> "E", generics |-> NoGenerics,
       data |-> [kind |-> "Enum", variants |-> <<"Unit">>]] }

\* The host reaches the next #[derive(VariantEq)]: the same declaration
\* again, or another one.
NextInvocation ==
    /\ Cur.pc \in Terminal
    /\ Len(invs) < MaxInvocations
    /\ \E d \in {invs[1].item} \cup LaterItems :
          invs' = Append(invs, [item |-> d, pc |-> "Unvalidated", out |-> Pending])
    /\ cmp' = NoCmp

HasEq(out) ==
    \E k \in 1..Len(out.tokens) :
        /\ out.tokens[k].trait = "PartialEq"
        /\ Len(out.tokens[k].items) = 1

\* a == b on two values of the enum the fragment was generated for.
Compare ==
    /\ Cur.pc = "Validated"
    /\ HasEq(Cur.out)
    /\ \E a, b \in Values(Cur.item) :
          cmp' = [done |-> TRUE, lhs |-> a, rhs |-> b, result |-> eq(a, b)]
    /\ UNCHANGED invs

Next == varianteq_derive \/ NextInvocation \/ Compare

Spec == Init /\ [][Next]_vars

\* varianteq_derive returns or panics whenever it is called: the macro is a
\* synchronous function without loops.
LiveSpec == Spec /\ WF_vars(varianteq_derive)

\* ------------------------------------------------ instantiating the generics

\* Types a type parameter can be instantiated with, and the traits each
\* implements: Opaque and Blob have no comparison operation.
TypeArgs == {"i32", "Blob", "Opaque"}

Implements(ty) ==
    CASE ty = "i32"    -> {"Clone", "PartialEq", "Eq", "Sized"}
      [] ty = "Blob"   -> {"Clone", "Sized"}
      [] ty = "Opaque" -> {"Sized"}

TypeParamNames(params) ==
    { params[i].name : i \in { j \in 1..Len(params) : params[j].kind = "type" } }

\* The assignments of a type to every type parameter of the declaration.
Instantiations(item) == [TypeParamNames(item.generics.params) -> TypeArgs]

\* The bounds written on the parameters and in the where clause hold of inst.
BoundsHold(params, where, inst) ==
    /\ \A i \in 1..Len(params) :
          params[i].kind = "type" =>
             \A k \in 1..Len(params[i].bounds) :
                params[i].bounds[k] \in Implements(inst[params[i].name])
    /\ \A k \in 1..Len(where) :
          /\ where[k].subject \in DOMAIN inst
          /\ where[k].bound \in Implements(inst[where[k].subject])

\* inst is an instantiation the declaration itself allows.
Legal(item, inst) ==
    BoundsHold(item.generics.params, item.generics.where_clause, inst)

\* The impl covers the type instantiated with inst.
Applies(impl, inst) == BoundsHold(impl.impl_generics, impl.where_clause, inst)

Done(i) == invs[i].pc \in Terminal

Range(s) == { s[i] : i \in 1..Len(s) }

\* ------------------------------------------------------------ claims

\* C1: two values holding the same variant compare equal under the generated
\* eq, whatever their field values are.
SameVariantEqual ==
    (cmp.done /\ cmp.lhs.variant = cmp.rhs.variant) => cmp.result = TRUE

\* C1 witness: the same variant with different field values compared equal.
SameVariantEqualWitness ==
    /\ cmp.done
    /\ cmp.lhs.variant = cmp.rhs.variant
    /\ cmp.lhs.payload # cmp.rhs.payload
    /\ cmp.result = TRUE

\* C2: two values holding different variants compare unequal under the
\* generated eq, also when their field values are identical.
DifferentVariantsUnequal ==
    (cmp.done /\ cmp.lhs.variant # cmp.rhs.variant) => cmp.result = FALSE

\* C2 witness: different variants with the same field value compared unequal.
DifferentVariantsUnequalWitness ==
    /\ cmp.done
    /\ cmp.lhs.variant # cmp.rhs.variant
    /\ cmp.lhs.payload = cmp.rhs.payload
    /\ cmp.lhs.payload \in FieldValues
    /\ cmp.result = FALSE

\* C3: a declaration that is not an enum ends in the one failure, "only
\* defined for enums", with no tokens produced; it is never expanded as an enum.
NonEnumRejected ==
    \A i \in 1..Len(invs) :
        (Done(i) /\ invs[i].item.data.kind # "Enum") =>
            /\ invs[i].pc = "Rejected"
            /\ invs[i].out.kind # "Tokens"
            /\ invs[i].out.message = UnsupportedKindMsg
            /\ invs[i].out.tokens = NoTokens

\* C3 witness: a struct was rejected.
NonEnumRejectedWitness ==
    /\ Cur.pc = "Rejected"
    /\ Cur.item.data.kind = "Struct"
    /\ Cur.out.tokens = NoTokens

\* C4 (as claimed): a rejection reaches the host as a returned error value,
\* not as a panic of the macro.
RejectionIsReturned ==
    \A i \in 1..Len(invs) :
        invs[i].pc = "Rejected" => invs[i].out.kind # "Panic"

\* C5: the generated eq is reflexive, symmetric and transitive over the values
\* of an accepted enum, and the empty Eq impl is emitted with it.
EqIsEquivalence ==
    \A i \in 1..Len(invs) :
        invs[i].pc = "Validated" =>
            /\ \E k \in 1..Len(invs[i].out.tokens) :
                  /\ invs[i].out.tokens[k].trait = "Eq"
                  /\ invs[i].out.tokens[k].items = <<>>
            /\ HasEq(invs[i].out)
            /\ \A a, b, c \in Values(invs[i].item) :
                  /\ eq(a, a)
                  /\ eq(a, b) => eq(b, a)
                  /\ (eq(a, b) /\ eq(b, c)) => eq(a, c)

\* C5 witness: an accepted enum with two variants, one of them with fields,
\* whose values were compared.
EqIsEquivalenceWitness ==
    /\ Cur.pc = "Validated"
    /\ Len(Cur.item.data.variants) >= 2
    /\ Cardinality(Values(Cur.item)) >= 3
    /\ cmp.done
    /\ cmp.lhs # cmp.rhs
    /\ cmp.result = TRUE

\* C6: the fragment is exactly the PartialEq impl and the empty Eq impl, both
\* with the same parameter list, type name, argument list and where clause,
\* which are the declaration's own, in order, nothing dropped or added.
GenericsPreserved ==
    \A i \in 1..Len(invs) :
        invs[i].pc = "Validated" =>
            LET t == invs[i].out.tokens
                g == invs[i].item.generics
            IN  /\ Len(t) = 2
                /\ t[1].trait = "PartialEq"
                /\ t[2].trait = "Eq"
                /\ t[2].items = <<>>
                /\ t[1].impl_generics = t[2].impl_generics
                /\ t[1].ident = t[2].ident
                /\ t[1].ty_generics = t[2].ty_generics
                /\ t[1].where_clause = t[2].where_clause
                /\ t[1].items[1].other = <<t[1].ident, t[1].ty_generics>>
                /\ \A k \in 1..2 :
                      /\ t[k].ident = invs[i].item.ident
                      /\ Len(t[k].impl_generics) = Len(g.params)
                      /\ Len(t[k].ty_generics) = Len(g.params)
                      /\ \A j \in 1..Len(g.params) :
                            /\ t[k].impl_generics[j].kind = g.params[j].kind
                            /\ t[k].impl_generics[j].name = g.params[j].name
                            /\ t[k].impl_generics[j].bounds = g.params[j].bounds
                            /\ t[k].ty_generics[j] = g.params[j].name
                      /\ t[k].where_clause = g.where_clause

\* C6 witness: an accepted enum with a lifetime, a bounded type parameter and
\* a where clause of two predicates.
GenericsPreservedWitness ==
    /\ Cur.pc = "Validated"
    /\ Len(Cur.item.generics.params) = 2
    /\ Cur.item.generics.params[1].kind = "lifetime"
    /\ Cur.item.generics.params[2].bounds = <<"Clone">>
    /\ Len(Cur.item.generics.where_clause) = 2
    /\ Len(Cur.out.tokens) = 2

\* C7: the impls carry no bound the declaration does not carry, so they cover
\* every instantiation the declaration allows, and the result of eq does not
\* change with the field values of its operands.
NoAddedBounds ==
    /\ \A i \in 1..Len(invs) :
          invs[i].pc = "Validated" =>
             \A k \in 1..Len(invs[i].out.tokens) :
                LET impl == invs[i].out.tokens[k]
                    g    == invs[i].item.generics
                IN  /\ \A j \in 1..Len(impl.impl_generics) :
                          \E m \in 1..Len(g.params) :
                             /\ g.params[m].name = impl.impl_generics[j].name
                             /\ Range(impl.impl_generics[j].bounds)
                                   \subseteq Range(g.params[m].bounds)
                    /\ Range(impl.where_clause) \subseteq Range(g.where_clause)
                    /\ \A inst \in Instantiations(invs[i].item) :
                          Legal(invs[i].item, inst) => Applies(impl, inst)
    /\ cmp.done =>
          \A p \in Payloads(Cur.item.data.variants[cmp.lhs.variant]),
             q \in Payloads(Cur.item.data.variants[cmp.rhs.variant]) :
                eq([cmp.lhs EXCEPT !.payload = p], [cmp.rhs EXCEPT !.payload = q])
                   = cmp.result

\* C7 witness: G<T> { V(T) } with T unconstrained was accepted, is covered for
\* a T without comparison, and V(t1) == V(t2) was true for different t1, t2.
NoAddedBoundsWitness ==
    /\ Cur.pc = "Validated"
    /\ Cur.item.ident = "G"
    /\ Len(Cur.item.generics.params) = 1
    /\ Cur.item.generics.params[1].name = "T"
    /\ Cur.item.generics.where_clause = <<>>
    /\ Cur.item.data.variants = <<"Unnamed">>
    /\ \A k \in 1..Len(Cur.out.tokens) :
          Applies(Cur.out.tokens[k], [n \in {"T"} |-> "Opaque"])
    /\ cmp.done
    /\ cmp.lhs.payload # cmp.rhs.payload
    /\ cmp.result = TRUE

\* C8: an invocation succeeds exactly when the declaration is an enum, with
\* any number of variants of any shape, and then returns the whole fragment;
\* two declarations of the same kind end the same way.
KindAloneDecides ==
    /\ \A i \in 1..Len(invs) :
          Done(i) =>
             /\ invs[i].pc = "Validated" <=> invs[i].item.data.kind = "Enum"
             /\ invs[i].pc = "Validated" =>
                   /\ invs[i].out.kind = "Tokens"
                   /\ Len(invs[i].out.tokens) = 2
    /\ \A i, j \in 1..Len(invs) :
          (Done(i) /\ Done(j) /\ invs[i].item.data.kind = invs[j].item.data.kind) =>
             /\ invs[i].pc = invs[j].pc
             /\ invs[i].out.kind = invs[j].out.kind

\* C8 witness: an enum without variants was accepted.
KindAloneDecidesWitness ==
    /\ Cur.pc = "Validated"
    /\ Cur.item.data.kind = "Enum"
    /\ Cur.item.data.variants = <<>>
    /\ Len(Cur.out.tokens) = 2

\* Nothing is produced before the end, a rejection carries no tokens and a
\* success carries both impls.
NoPartialOutput ==
    \A i \in 1..Len(invs) :
        /\ invs[i].pc = "Unvalidated" => invs[i].out = Pending
        /\ invs[i].pc = "Rejected" =>
              (invs[i].out.kind = "Panic" /\ invs[i].out.tokens = NoTokens)
        /\ invs[i].pc = "Validated" =>
              (invs[i].out.kind = "Tokens" /\ Len(invs[i].out.tokens) = 2)

\* An invocation that is over never changes; one that is not over changes
\* only by ending; a new invocation starts in Unvalidated.
OneStep ==
    /\ Len(invs') >= Len(invs)
    /\ \A i \in 1..Len(invs) :
          /\ Done(i) => invs'[i] = invs[i]
          /\ (~Done(i) /\ invs'[i] # invs[i]) =>
                /\ invs'[i].pc \in Terminal
                /\ invs'[i].item = invs[i].item
    /\ \A i \in (Len(invs) + 1)..Len(invs') :
          invs'[i].pc = "Unvalidated" /\ invs'[i].out = Pending

\* C9: every invocation starts in Unvalidated, ends in one step in Validated
\* (the whole fragment) or Rejected (no fragment), and never changes after.
OneStepTerminal ==
    /\ []NoPartialOutput
    /\ [][OneStep]_vars
    /\ [](Cur.pc = "Unvalidated" => <>(Cur.pc \in Terminal))

\* C9 witness: one invocation ended Validated and a later one Rejected.
OneStepTerminalWitness ==
    /\ Len(invs) >= 2
    /\ invs[1].pc = "Validated"
    /\ Len(invs[1].out.tokens) = 2
    /\ invs[2].pc = "Rejected"
    /\ invs[2].out.tokens = NoTokens

====
